---- MODULE Spec2Model ----
(***************************************************************************)
(* Ticket bot (src/Python/main.py): the ephemeral ticket configurator      *)
(* (TicketOpenView), the access policy (can_manage), the persistent        *)
(* ticket panel (TicketPanel), the participant selectors (AddUserView,     *)
(* RemoveUserView) and the /close command, over a guild whose channels,    *)
(* permission overwrites, topics and roles are owned by the platform.      *)
(*                                                                         *)
(* Every handler is a coroutine: it runs atomically from one await to the  *)
(* next.  A step of a handler is "the pending platform call takes effect,  *)
(* the handler resumes and runs up to its next platform call".             *)
(***************************************************************************)
EXTENDS Integers, Sequences, FiniteSets, TLC

\* ---------------------------------------------------------------- bounds
NumMembers == 2
MaxSessions == 1
MaxTickets == 2
MaxTasks == 2
MaxSelectors == 1
MaxPanelTasks == 1
MaxClaims == 2
MaxPriorClaims == 21
NameLen == 8
NumReasons == 2
NumPriorities == 2

\* ------------------------------------------------------------ identities
Members == 1..NumMembers
BotId == NumMembers + 1
StaffRoleId == NumMembers + 2
DefaultRoleId == NumMembers + 3
OutsiderId == NumMembers + 4
PlatformUsers == Members \cup {OutsiderId}

PRESET_REASONS == 1..NumReasons
PRESET_PRIORITIES == 1..NumPriorities

\* None for an optional value (a reason, a priority, STAFF_ROLE_ID, a role)
None == 0

\* ---------------------------------------------------------------- channels
GeneralId == 1
ThreadId == GeneralId + 1
ChannelIds == GeneralId..(ThreadId + MaxTickets)
\* a menu per member at most; /ticket opens the first MaxSessions of them
SessionIds == 1..NumMembers
TaskIds == 1..MaxTasks

VARIABLES
    STAFF_ROLE_ID,  \* the configured staff role id, None when unset
    roles,          \* member -> set of role ids the member holds
    categories,     \* number of categories named TICKET_CATEGORY_NAME
    channels,       \* channel id -> channel record (platform state)
    viewStore,      \* channel id -> opener_id of the TicketPanel stored with its message
    sessions,       \* session id -> TicketOpenView record
    selectors,      \* live AddUserView / RemoveUserView objects
    tasks,          \* task id -> suspended handler
    last,           \* the last thing a handler told its actor (or raised)
    nclaims,        \* claim edits accepted so far (caps the topic's growth)
    trail           \* history: the last accepted overwrite edit, for add-then-remove

vars == <<STAFF_ROLE_ID, roles, categories, channels, viewStore, sessions,
          selectors, tasks, last, nclaims, trail>>

\* ------------------------------------------------------- permission model
OpenerOverwrite ==
    [allow |-> {"view_channel", "send_messages", "read_message_history", "attach_files"},
     deny |-> {}]

BotOverwrite ==
    [allow |-> {"view_channel", "send_messages", "manage_channels",
                "read_message_history", "attach_files"},
     deny |-> {}]

StaffOverwrite ==
    [allow |-> {"view_channel", "send_messages", "read_message_history",
                "manage_messages", "attach_files"},
     deny |-> {}]

DefaultOverwrite == [allow |-> {}, deny |-> {"view_channel"}]

AddedOverwrite ==
    [allow |-> {"view_channel", "send_messages", "read_message_history", "attach_files"},
     deny |-> {}]

\* guild.get_role(int(STAFF_ROLE_ID)) if STAFF_ROLE_ID else None
get_role(staff_role_id) ==
    IF staff_role_id # None /\ staff_role_id = StaffRoleId THEN StaffRoleId ELSE None

\* a dict: later keys overwrite earlier ones (the opener may be guild.me's equal
\* only if the bot opened a ticket, which no member does)
build_ticket_overwrites(opener, staff_role) ==
    LET base == (DefaultRoleId :> DefaultOverwrite) @@ (opener :> OpenerOverwrite)
                @@ (BotId :> BotOverwrite)
    IN IF staff_role # None THEN (staff_role :> StaffOverwrite) @@ base ELSE base

HasStaffRole(member) ==
    STAFF_ROLE_ID # None /\ \E r \in roles[member] : r = STAFF_ROLE_ID

\* can_manage without the test that a staff role is configured
can_manage_unconfigured(member, opener_id) ==
    IF member = opener_id THEN TRUE
    ELSE IF \E r \in roles[member] : r = StaffRoleId THEN TRUE
    ELSE FALSE

\* can_manage falling through to True
can_manage_by_default(member, opener_id) ==
    IF member = opener_id THEN TRUE
    ELSE IF HasStaffRole(member) THEN TRUE
    ELSE TRUE

can_manage(member, opener_id) ==
    IF member = opener_id THEN TRUE
    ELSE IF HasStaffRole(member) THEN TRUE
    ELSE FALSE

\* -------------------------------------------------------------- the topic
\* A topic is the sequence of its claim notes, each with the characters kept of
\* " | Claimed by <member> at <YYYY-MM-DD HH:MM:SS UTC>".
TopicLimit == 1024

NoteLen == 3 + 11 + NameLen + 4 + 23

\* the characters of a note up to the end of the member's name
NamePrefixLen == 3 + 11 + NameLen

RECURSIVE Slice(_, _)
\* text[:n]
Slice(text, n) ==
    IF text = <<>> \/ n <= 0 THEN <<>>
    ELSE IF Head(text).kept <= n
         THEN <<Head(text)>> \o Slice(Tail(text), n - Head(text).kept)
         ELSE <<[Head(text) EXCEPT !.kept = n]>>

\* f"{topic} | {claimed_note}"[:1024]
ClaimedTopic(topic, member) ==
    Slice(Append(topic, [by |-> member, kept |-> NoteLen]), TopicLimit)

\* --------------------------------------------------------- the transcript
\* Text is a sequence of pieces: a character [k |-> "char", n |-> its code], or
\* a formatted field that holds no line break: the time of a message, its
\* author, the url of an attachment, a literal of the program.
Newline == 10
Backslash == 92
LetterN == 110
LetterA == 97

Char(code) == [k |-> "char", n |-> code]

\* created_at counts ticks; the format "%Y-%m-%d %H:%M:%S UTC" keeps the seconds
TicksPerSecond == 2

fmt_ts(dt) == [k |-> "time", n |-> dt \div TicksPerSecond]

\* f"{msg.author} ({msg.author.id})"
AuthorText(author) == [k |-> "author", n |-> author]

RECURSIVE Escape(_)
\* msg.content.replace("\n", "\\n")
Escape(content) ==
    IF content = <<>> THEN <<>>
    ELSE (IF Head(content) = Newline THEN <<Char(Backslash), Char(LetterN)>>
          ELSE <<Char(Head(content))>>) \o Escape(Tail(content))

\* " | Attachments: " + ", ".join(att.url for att in msg.attachments)
AttachInfo(attachments) ==
    IF attachments = <<>> THEN <<>>
    ELSE <<[k |-> "attachments", n |-> 0]>>
         \o [i \in 1..Len(attachments) |-> [k |-> "url", n |-> attachments[i]]]

\* f"[{time_str}] {author}: {content}{attach_info}"
Line(msg) ==
    <<fmt_ts(msg.created_at), AuthorText(msg.author)>>
    \o Escape(msg.content) \o AttachInfo(msg.attachments)

RECURSIVE Join(_)
\* "\n".join(lines)
Join(lines) ==
    IF Len(lines) = 1 THEN Head(lines)
    ELSE Head(lines) \o <<Char(Newline)>> \o Join(Tail(lines))

\* "No messages."
NoMessagesText == <<[k |-> "no_messages", n |-> 0]>>

Oldest(msgs) == CHOOSE m \in msgs : \A o \in msgs : m.created_at <= o.created_at

Newest(msgs) == CHOOSE m \in msgs : \A o \in msgs : m.created_at >= o.created_at

RECURSIVE history_newest_first(_)
\* channel.history(limit=None) left at its default order
history_newest_first(msgs) ==
    IF msgs = {} THEN <<>>
    ELSE <<Newest(msgs)>> \o history_newest_first(msgs \ {Newest(msgs)})

RECURSIVE history(_)
\* channel.history(limit=None, oldest_first=True)
history(msgs) ==
    IF msgs = {} THEN <<>>
    ELSE <<Oldest(msgs)>> \o history(msgs \ {Oldest(msgs)})

\* the text of the file TicketPanel.transcript sends
TranscriptText(msgs) ==
    LET lines == [i \in 1..Cardinality(msgs) |-> Line(history(msgs)[i])]
    IN IF lines # <<>> THEN Join(lines) ELSE NoMessagesText

\* the time the platform stamps on the next message of a channel
NextStamp(msgs) == IF msgs = {} THEN 1 ELSE Newest(msgs).created_at + 1

\* channel.send(content=(staff_role.mention if staff_role else ""), embed, view)
PanelMessage(staff_role, stamp) ==
    [created_at |-> stamp, author |-> BotId,
     content |-> IF staff_role # None THEN <<LetterA>> ELSE <<>>,
     attachments |-> <<>>]

\* ------------------------------------------------------------ state shapes
NoChannel ==
    [st |-> "none", kind |-> "text", ticket |-> FALSE, opener |-> None, ow |-> <<>>, topic |-> <<>>,
     cat |-> None, by |-> None, panel |-> FALSE, messages |-> {}]

\* a text channel of the guild that is no ticket: default permissions, no topic
PlainChannel ==
    [st |-> "live", kind |-> "text", ticket |-> FALSE, opener |-> None, ow |-> <<>>, topic |-> <<>>,
     cat |-> None, by |-> None, panel |-> FALSE, messages |-> {}]

NoSession ==
    [st |-> "none", opener |-> None, reason |-> None, priority |-> None,
     disabled |-> TRUE, menu |-> "none"]

\* a thread of the guild: the commands can be invoked in it, it is no TextChannel
PlainThread == [PlainChannel EXCEPT !.kind = "thread"]

IdleTask ==
    [pc |-> "idle", sess |-> None, actor |-> None, chan |-> None, cat |-> None,
     target |-> None, topic |-> <<>>]

\* no overwrite edit yet, or the last one was not an add; added holds the
\* <<channel, identity>> pairs of the accepted adds not removed since
NoTrail ==
    [chan |-> None, target |-> None, before |-> <<>>, undone |-> FALSE, added |-> {}]

\* file is the text of the file sent with the message, <<>> when there is none
Quiet == [op |-> "none", actor |-> None, chan |-> None, msg |-> "none", file |-> <<>>]

Said(op, actor, chan, msg) ==
    [op |-> op, actor |-> actor, chan |-> chan, msg |-> msg, file |-> <<>>]

Live(c) == channels[c].st = "live"

FreeTasks == {t \in TaskIds : tasks[t].pc = "idle"}

\* the lowest idle task slot
NewTask == CHOOSE t \in FreeTasks : \A u \in FreeTasks : t <= u

FreeChannels == {c \in ChannelIds : channels[c].st = "none"}

\* channel ids are handed out in increasing order and never reused
NewChannel == CHOOSE c \in FreeChannels : \A d \in FreeChannels : c <= d

\* tickets created or about to be created (caps the channel ids in use)
Committed ==
    Cardinality({c \in ChannelIds : channels[c].ticket})
    + Cardinality({t \in TaskIds : tasks[t].pc \in {"create_category", "create_text_channel"}})

\* ------------------------------------------------------------------- Init
Init ==
    /\ STAFF_ROLE_ID \in {None, StaffRoleId}
    /\ roles = [m \in Members |-> {}]
    /\ categories = 0
    /\ channels = [c \in ChannelIds |->
                    IF c = GeneralId THEN PlainChannel
                    ELSE IF c = ThreadId THEN PlainThread
                    ELSE NoChannel]
    /\ viewStore = <<>>
    /\ sessions = [s \in SessionIds |-> NoSession]
    /\ selectors = {}
    /\ tasks = [t \in TaskIds |-> IdleTask]
    /\ last = Quiet
    /\ nclaims = 0
    /\ trail = NoTrail

\* ------------------------------------------------- platform: role changes
GrantRole(m) ==
    /\ StaffRoleId \notin roles[m]
    /\ roles' = [roles EXCEPT ![m] = @ \cup {StaffRoleId}]
    /\ UNCHANGED <<STAFF_ROLE_ID, categories, channels, viewStore, sessions,
                   selectors, tasks, last, nclaims, trail>>

RevokeRole(m) ==
    /\ StaffRoleId \in roles[m]
    /\ roles' = [roles EXCEPT ![m] = @ \ {StaffRoleId}]
    /\ UNCHANGED <<STAFF_ROLE_ID, categories, channels, viewStore, sessions,
                   selectors, tasks, last, nclaims, trail>>

\* ------------------------------------------------------ TicketConfigurator
\* /ticket: a TicketOpenView for the invoking member, sent as an ephemeral menu
ticket(s, opener) ==
    /\ s <= MaxSessions
    /\ sessions[s].st = "none"
    /\ \A r \in SessionIds : r < s => sessions[r].st # "none"
    /\ sessions' = [sessions EXCEPT ![s] =
            [st |-> "live", opener |-> opener, reason |-> None, priority |-> None,
             disabled |-> TRUE, menu |-> "controls"]]
    /\ last' = Said("ticket", opener, None, "menu")
    /\ UNCHANGED <<STAFF_ROLE_ID, roles, categories, channels, viewStore,
                   selectors, tasks, nclaims, trail>>

\* the menu's controls reach the view while the message shows them and the view
\* has not timed out; the menu is ephemeral, so the actor is its opener.  The
\* message shows them until an edit with view=None has reached the platform.
Deliverable(s) ==
    sessions[s].st = "live" /\ sessions[s].menu \in {"controls", "cancelling"}

\* self.confirm_btn.disabled = not (self.reason and self.priority)
refresh(v) == [v EXCEPT !.disabled = ~(v.reason # None /\ v.priority # None)]

on_reason(s, r) ==
    /\ Deliverable(s)
    /\ sessions' = [sessions EXCEPT ![s] = refresh([@ EXCEPT !.reason = r])]
    /\ last' = Said("on_reason", sessions[s].opener, None, "summary")
    /\ UNCHANGED <<STAFF_ROLE_ID, roles, categories, channels, viewStore,
                   selectors, tasks, nclaims, trail>>

on_priority(s, p) ==
    /\ Deliverable(s)
    /\ sessions' = [sessions EXCEPT ![s] = refresh([@ EXCEPT !.priority = p])]
    /\ last' = Said("on_priority", sessions[s].opener, None, "summary")
    /\ UNCHANGED <<STAFF_ROLE_ID, roles, categories, channels, viewStore,
                   selectors, tasks, nclaims, trail>>

\* on_cancel up to its await: edit_message(content="Ticket creation cancelled.",
\* view=None) is called; the view object is not stopped, no field of it is set,
\* and handlers already running go on
on_cancel(s) ==
    /\ Deliverable(s)
    /\ sessions' = [sessions EXCEPT ![s].menu = "cancelling"]
    /\ UNCHANGED <<STAFF_ROLE_ID, roles, categories, channels, viewStore,
                   selectors, tasks, last, nclaims, trail>>

\* the edit of on_cancel reaches the platform: the message loses its controls
cancel_edit(s) ==
    /\ sessions[s].menu = "cancelling"
    /\ sessions' = [sessions EXCEPT ![s].menu = "cancelled"]
    /\ last' = Said("on_cancel", sessions[s].opener, None, "cancelled")
    /\ UNCHANGED <<STAFF_ROLE_ID, roles, categories, channels, viewStore,
                   selectors, tasks, nclaims, trail>>

\* View(timeout=120) ran out: the view leaves the store, the message is untouched
on_timeout(s) ==
    /\ sessions[s].st = "live"
    /\ sessions' = [sessions EXCEPT ![s].st = "timed_out"]
    /\ UNCHANGED <<STAFF_ROLE_ID, roles, categories, channels, viewStore,
                   selectors, tasks, last, nclaims, trail>>

\* the guard of on_confirm testing the reason alone
ConfirmReadyReasonOnly(v) == v.reason # None

\* the guard of on_confirm
ConfirmReady(v) == v.reason # None /\ v.priority # None

\* on_confirm up to its first await: the guard, then get_or_create_category finds
\* the category (and create_text_channel is called) or calls create_category
on_confirm(s) ==
    /\ Deliverable(s)
    /\ IF ~ConfirmReady(sessions[s])
       THEN /\ last' = Said("on_confirm", sessions[s].opener, None, "select_both")
            /\ UNCHANGED tasks
       ELSE /\ FreeTasks # {}
            /\ Committed < MaxTickets
            /\ tasks' = [tasks EXCEPT ![NewTask] =
                    [IdleTask EXCEPT
                        !.pc = IF categories = 0 THEN "create_category"
                               ELSE "create_text_channel",
                        !.sess = s, !.actor = sessions[s].opener,
                        !.cat = IF categories = 0 THEN None ELSE 1]]
            /\ UNCHANGED last
    /\ UNCHANGED <<STAFF_ROLE_ID, roles, categories, channels, viewStore, sessions,
                   selectors, nclaims, trail>>

\* guild.create_category returns, or raises Forbidden, which nothing catches
create_category(t, ok) ==
    /\ tasks[t].pc = "create_category"
    /\ IF ok
       THEN /\ categories' = categories + 1
            /\ tasks' = [tasks EXCEPT ![t].pc = "create_text_channel",
                                      ![t].cat = categories + 1]
            /\ UNCHANGED last
       ELSE /\ tasks' = [tasks EXCEPT ![t] = IdleTask]
            /\ last' = Said("on_confirm", tasks[t].actor, None, "unhandled_forbidden")
            /\ UNCHANGED categories
    /\ UNCHANGED <<STAFF_ROLE_ID, roles, channels, viewStore, sessions, selectors,
                   nclaims, trail>>

\* guild.create_text_channel returns the channel, or raises Forbidden (uncaught)
create_text_channel(t, ok) ==
    /\ tasks[t].pc = "create_text_channel"
    /\ IF ok
       THEN /\ channels' = [channels EXCEPT ![NewChannel] =
                    [st |-> "live", kind |-> "text", ticket |-> TRUE, opener |-> tasks[t].actor,
                     ow |-> build_ticket_overwrites(tasks[t].actor,
                                                    get_role(STAFF_ROLE_ID)),
                     topic |-> <<>>, cat |-> tasks[t].cat, by |-> tasks[t].sess,
                     panel |-> FALSE, messages |-> {}]]
            /\ tasks' = [tasks EXCEPT ![t].pc = "send", ![t].chan = NewChannel]
            /\ UNCHANGED last
       ELSE /\ tasks' = [tasks EXCEPT ![t] = IdleTask]
            /\ last' = Said("on_confirm", tasks[t].actor, None, "unhandled_forbidden")
            /\ UNCHANGED channels
    /\ UNCHANGED <<STAFF_ROLE_ID, roles, categories, viewStore, sessions, selectors,
                   nclaims, trail>>

\* channel.send(..., view=TicketPanel(opener_id=self.opener.id)): the panel is
\* stored with its message; a channel deleted meanwhile raises NotFound (uncaught)
send_panel(t) ==
    /\ tasks[t].pc = "send"
    /\ IF Live(tasks[t].chan)
       THEN /\ channels' = [channels EXCEPT
                    ![tasks[t].chan].panel = TRUE,
                    ![tasks[t].chan].messages =
                        @ \cup {PanelMessage(get_role(STAFF_ROLE_ID), NextStamp(@))}]
            /\ viewStore' = (tasks[t].chan :> tasks[t].actor) @@ viewStore
            /\ tasks' = [tasks EXCEPT ![t].pc = "edit_message"]
            /\ UNCHANGED last
       ELSE /\ tasks' = [tasks EXCEPT ![t] = IdleTask]
            /\ last' = Said("on_confirm", tasks[t].actor, tasks[t].chan,
                            "unhandled_not_found")
            /\ UNCHANGED <<channels, viewStore>>
    /\ UNCHANGED <<STAFF_ROLE_ID, roles, categories, sessions, selectors, nclaims, trail>>

\* interaction.response.edit_message(content="Your ticket has been created", view=None)
edit_message(t) ==
    /\ tasks[t].pc = "edit_message"
    /\ sessions' = [sessions EXCEPT ![tasks[t].sess].menu = "created"]
    /\ tasks' = [tasks EXCEPT ![t] = IdleTask]
    /\ last' = Said("on_confirm", tasks[t].actor, tasks[t].chan, "created")
    /\ UNCHANGED <<STAFF_ROLE_ID, roles, categories, channels, viewStore, selectors,
                   nclaims, trail>>

NextConfigurator ==
    \/ \E s \in SessionIds, m \in Members : ticket(s, m)
    \/ \E s \in SessionIds, r \in PRESET_REASONS : on_reason(s, r)
    \/ \E s \in SessionIds, p \in PRESET_PRIORITIES : on_priority(s, p)
    \/ \E s \in SessionIds : on_cancel(s)
    \/ \E s \in SessionIds : cancel_edit(s)
    \/ \E s \in SessionIds : on_timeout(s)
    \/ \E s \in SessionIds : on_confirm(s)
    \/ \E t \in TaskIds, ok \in BOOLEAN : create_category(t, ok)
    \/ \E t \in TaskIds, ok \in BOOLEAN : create_text_channel(t, ok)
    \/ \E t \in TaskIds : send_panel(t)
    \/ \E t \in TaskIds : edit_message(t)

SpecConfigurator == Init /\ [][NextConfigurator]_vars

\* ------------------------------------------------------------- TicketPanel
\* on_ready registers TicketPanel(opener_id=0) for every panel whose own view
\* is not in the store (every panel sent before the last start of the process)
PlaceholderOpenerId == 0

\* self.opener_id of the TicketPanel a press in channel c is dispatched to
PanelOpenerId(c) == IF c \in DOMAIN viewStore THEN viewStore[c] ELSE PlaceholderOpenerId

\* the panel's message is there to be pressed
PanelUsable(c) == Live(c) /\ channels[c].panel

Spawn(pc, actor, c, target, topic) ==
    [tasks EXCEPT ![NewTask] =
        [IdleTask EXCEPT !.pc = pc, !.actor = actor, !.chan = c,
                         !.target = target, !.topic = topic]]

\* TicketPanel.close up to asyncio.sleep(5)
panel_close(actor, c) ==
    /\ PanelUsable(c)
    /\ IF ~can_manage(actor, PanelOpenerId(c))
       THEN /\ last' = Said("close", actor, c, "not_allowed")
            /\ UNCHANGED tasks
       ELSE /\ FreeTasks # {}
            /\ tasks' = Spawn("panel_sleep", actor, c, None, <<>>)
            /\ last' = Said("close", actor, c, "closing")
    /\ UNCHANGED <<STAFF_ROLE_ID, roles, categories, channels, viewStore, sessions,
                   selectors, nclaims, trail>>

\* not (STAFF_ROLE_ID and any(r.id == int(STAFF_ROLE_ID) for r in member.roles))
CommandCloseDenied(member) ==
    ~(STAFF_ROLE_ID # None /\ \E r \in roles[member] : r = STAFF_ROLE_ID)

\* the /close command up to asyncio.sleep(5)
close(actor, c) ==
    /\ Live(c)
    /\ IF channels[c].kind # "text"
       THEN /\ last' = Said("cmd_close", actor, c, "use_inside_ticket")
            /\ UNCHANGED tasks
       ELSE IF CommandCloseDenied(actor)
       THEN /\ last' = Said("cmd_close", actor, c, "only_staff")
            /\ UNCHANGED tasks
       ELSE /\ FreeTasks # {}
            /\ tasks' = Spawn("cmd_sleep", actor, c, None, <<>>)
            /\ last' = Said("cmd_close", actor, c, "closing")
    /\ UNCHANGED <<STAFF_ROLE_ID, roles, categories, channels, viewStore, sessions,
                   selectors, nclaims, trail>>

\* after the sleep: interaction.channel.delete; only Forbidden is caught
channel_delete(t, ok) ==
    /\ tasks[t].pc \in {"panel_sleep", "cmd_sleep"}
    /\ LET op == IF tasks[t].pc = "panel_sleep" THEN "close" ELSE "cmd_close"
           c == tasks[t].chan
       IN IF ~Live(c)
          THEN /\ last' = Said(op, tasks[t].actor, c, "unhandled_not_found")
               /\ UNCHANGED channels
          ELSE IF ok
          THEN /\ channels' = [channels EXCEPT ![c].st = "deleted"]
               /\ last' = Said(op, tasks[t].actor, c, "deleted")
          ELSE /\ last' = Said(op, tasks[t].actor, c, "lack_permission")
               /\ UNCHANGED channels
    /\ tasks' = [tasks EXCEPT ![t] = IdleTask]
    /\ UNCHANGED <<STAFF_ROLE_ID, roles, categories, viewStore, sessions, selectors,
                   nclaims, trail>>

\* TicketPanel.transcript up to the history fetch
transcript(actor, c) ==
    /\ PanelUsable(c)
    /\ IF ~can_manage(actor, PanelOpenerId(c))
       THEN /\ last' = Said("transcript", actor, c, "not_allowed")
            /\ UNCHANGED tasks
       ELSE /\ FreeTasks # {}
            /\ tasks' = Spawn("history", actor, c, None, <<>>)
            /\ last' = Said("transcript", actor, c, "thinking")
    /\ UNCHANGED <<STAFF_ROLE_ID, roles, categories, channels, viewStore, sessions,
                   selectors, nclaims, trail>>

\* the history is read and the file sent as a followup
transcript_send(t) ==
    /\ tasks[t].pc = "history"
    /\ last' = IF Live(tasks[t].chan)
               THEN [Said("transcript", tasks[t].actor, tasks[t].chan, "file")
                        EXCEPT !.file = TranscriptText(channels[tasks[t].chan].messages)]
               ELSE Said("transcript", tasks[t].actor, tasks[t].chan,
                         "unhandled_not_found")
    /\ tasks' = [tasks EXCEPT ![t] = IdleTask]
    /\ UNCHANGED <<STAFF_ROLE_ID, roles, categories, channels, viewStore, sessions,
                   selectors, nclaims, trail>>

Selector(kind, c, actor) ==
    [kind |-> kind, chan |-> c, opener_id |-> PanelOpenerId(c), user |-> actor]

\* TicketPanel.add_user / remove_user: an ephemeral AddUserView / RemoveUserView
\* built with the panel's opener_id
open_selector(kind, actor, c) ==
    /\ PanelUsable(c)
    /\ IF ~can_manage(actor, PanelOpenerId(c))
       THEN /\ last' = Said(kind, actor, c, "not_allowed")
            /\ UNCHANGED selectors
       ELSE /\ Cardinality(selectors \cup {Selector(kind, c, actor)}) <= MaxSelectors
            /\ selectors' = selectors \cup {Selector(kind, c, actor)}
            /\ last' = Said(kind, actor, c, "select_a_user")
    /\ UNCHANGED <<STAFF_ROLE_ID, roles, categories, channels, viewStore, sessions,
                   tasks, nclaims, trail>>

add_user(actor, c) == open_selector("add_user", actor, c)

remove_user(actor, c) == open_selector("remove_user", actor, c)

\* View(timeout=60) ran out
selector_timeout(v) ==
    /\ v \in selectors
    /\ selectors' = selectors \ {v}
    /\ UNCHANGED <<STAFF_ROLE_ID, roles, categories, channels, viewStore, sessions,
                   tasks, last, nclaims, trail>>

\* the overwrite of an identity as <<overwrite>>, or <<>> when it has none
OverwriteOf(ow, target) == IF target \in DOMAIN ow THEN <<ow[target]>> ELSE <<>>

\* guild.get_member(selected.id): the bot is a member of its guild
get_member(id) == IF id \in Members \cup {BotId} THEN id ELSE None

\* AddUserView.select_user / RemoveUserView.select_user up to set_permissions
select_user(v, selected) ==
    /\ v \in selectors
    /\ Live(v.chan)
    /\ LET op == IF v.kind = "add_user" THEN "add_select" ELSE "remove_select"
       IN IF ~can_manage(v.user, v.opener_id)
          THEN /\ last' = Said(op, v.user, v.chan, "not_allowed")
               /\ UNCHANGED tasks
          ELSE IF get_member(selected) = None
          THEN /\ last' = Said(op, v.user, v.chan, "not_in_server")
               /\ UNCHANGED tasks
          ELSE /\ FreeTasks # {}
               /\ tasks' = Spawn(IF v.kind = "add_user" THEN "set_add" ELSE "set_remove",
                                 v.user, v.chan, get_member(selected), <<>>)
               /\ UNCHANGED last
    /\ UNCHANGED <<STAFF_ROLE_ID, roles, categories, channels, viewStore, sessions,
                   selectors, nclaims, trail>>

\* add-user opening the channel to everyone
GrantedToEveryone(ow, target) == (DefaultRoleId :> AddedOverwrite) @@ ow

\* set_permissions(target, view_channel=True, ...): the overwrite is replaced
Granted(ow, target) == (target :> AddedOverwrite) @@ ow

\* remove-user as an explicit deny in place of the deletion
ClearedAsDeny(ow, target) == (target :> DefaultOverwrite) @@ ow

\* set_permissions(target, overwrite=None): the overwrite is deleted
Cleared(ow, target) == [i \in DOMAIN ow \ {target} |-> ow[i]]

\* channel.set_permissions returns or raises; only Forbidden is caught
set_permissions(t, ok) ==
    /\ tasks[t].pc \in {"set_add", "set_remove"}
    /\ LET add == tasks[t].pc = "set_add"
           op == IF add THEN "add_select" ELSE "remove_select"
           c == tasks[t].chan
       IN IF ~Live(c)
          THEN /\ last' = Said(op, tasks[t].actor, c, "unhandled_not_found")
               /\ UNCHANGED channels
          ELSE IF ok
          THEN /\ channels' = [channels EXCEPT ![c].ow =
                        IF add THEN Granted(@, tasks[t].target)
                        ELSE Cleared(@, tasks[t].target)]
               /\ last' = Said(op, tasks[t].actor, c, IF add THEN "added" ELSE "removed")
          ELSE /\ last' = Said(op, tasks[t].actor, c, "missing_permission")
               /\ UNCHANGED channels
    /\ tasks' = [tasks EXCEPT ![t] = IdleTask]
    /\ UNCHANGED <<STAFF_ROLE_ID, roles, categories, viewStore, sessions, selectors,
                   nclaims>>

\* the claim gate taken over from the other buttons: can_manage on the panel's opener
ClaimDeniedLikeManage(member) ==
    ~(\E c \in DOMAIN viewStore : can_manage(member, viewStore[c]))

\* not STAFF_ROLE_ID or not any(r.id == int(STAFF_ROLE_ID) for r in member.roles)
ClaimDenied(member) ==
    STAFF_ROLE_ID = None \/ ~(\E r \in roles[member] : r = STAFF_ROLE_ID)

ClaimsStarted == nclaims + Cardinality({t \in TaskIds : tasks[t].pc = "edit_topic"})

\* TicketPanel.claim up to channel.edit: the topic is read before the await
claim(actor, c) ==
    /\ PanelUsable(c)
    /\ IF ClaimDenied(actor)
       THEN /\ last' = Said("claim", actor, c, "only_staff")
            /\ UNCHANGED tasks
       ELSE /\ FreeTasks # {}
            /\ ClaimsStarted < MaxClaims
            /\ tasks' = Spawn("edit_topic", actor, c, None,
                              ClaimedTopic(channels[c].topic, actor))
            /\ UNCHANGED last
    /\ UNCHANGED <<STAFF_ROLE_ID, roles, categories, channels, viewStore, sessions,
                   selectors, nclaims, trail>>

\* channel.edit(topic=...) returns or raises: Forbidden is passed over, and the
\* claim is announced either way
edit_topic(t, ok) ==
    /\ tasks[t].pc = "edit_topic"
    /\ LET c == tasks[t].chan
       IN IF ~Live(c)
          THEN /\ last' = Said("claim", tasks[t].actor, c, "unhandled_not_found")
               /\ UNCHANGED <<channels, nclaims>>
          ELSE IF ok
          THEN /\ channels' = [channels EXCEPT ![c].topic = tasks[t].topic]
               /\ nclaims' = nclaims + 1
               /\ last' = Said("claim", tasks[t].actor, c, "claimed")
          ELSE /\ last' = Said("claim", tasks[t].actor, c, "claimed")
               /\ UNCHANGED <<channels, nclaims>>
    /\ tasks' = [tasks EXCEPT ![t] = IdleTask]
    /\ UNCHANGED <<STAFF_ROLE_ID, roles, categories, viewStore, sessions, selectors,
                   trail>>

\* ----------------------------------------------------------------- restart
\* The process stops and starts again: every view, session and running handler
\* is lost, and on_ready registers the placeholder panel.
on_ready ==
    /\ viewStore' = <<>>
    /\ sessions' = [s \in SessionIds |->
                        IF sessions[s].st = "none" THEN sessions[s]
                        ELSE [sessions[s] EXCEPT !.st = "lost"]]
    /\ selectors' = {}
    /\ tasks' = [t \in TaskIds |-> IdleTask]
    /\ last' = Quiet
    /\ UNCHANGED <<STAFF_ROLE_ID, roles, categories, channels, nclaims, trail>>

NextAccess ==
    \/ \E m \in Members, c \in ChannelIds : panel_close(m, c)
    \/ \E t \in TaskIds, ok \in BOOLEAN : channel_delete(t, ok)
    \/ \E m \in Members, c \in ChannelIds : transcript(m, c)
    \/ \E t \in TaskIds : transcript_send(t)
    \/ \E m \in Members, c \in ChannelIds : add_user(m, c)
    \/ \E m \in Members, c \in ChannelIds : remove_user(m, c)
    \/ \E v \in selectors : selector_timeout(v)
    \/ \E v \in selectors, u \in PlatformUsers \cup {BotId} : select_user(v, u)
    \/ \E t \in TaskIds, ok \in BOOLEAN : set_permissions(t, ok) /\ UNCHANGED trail

NextClaim ==
    \/ \E m \in Members, c \in ChannelIds : claim(m, c)
    \/ \E t \in TaskIds, ok \in BOOLEAN : edit_topic(t, ok)

NextCommand ==
    \/ \E m \in Members, c \in ChannelIds : close(m, c)
    \/ \E t \in TaskIds, ok \in BOOLEAN : channel_delete(t, ok)

NextRoles ==
    \/ \E m \in Members : GrantRole(m)
    \/ \E m \in Members : RevokeRole(m)

Next == NextConfigurator \/ NextAccess \/ NextClaim \/ NextCommand \/ NextRoles \/ on_ready

Spec == Init /\ [][Next]_vars

\* --------------------------------------------------- the panel of a ticket
\* The state on_confirm leaves behind once edit_message has returned: the ticket
\* of one member, its panel sent by the running process, the menu closed.
TicketOf(opener) ==
    [st |-> "live", kind |-> "text", ticket |-> TRUE, opener |-> opener,
     ow |-> build_ticket_overwrites(opener, get_role(STAFF_ROLE_ID)),
     topic |-> <<>>, cat |-> 1, by |-> 1, panel |-> TRUE,
     messages |-> {PanelMessage(get_role(STAFF_ROLE_ID), NextStamp({}))}]

FirstTicketId == ThreadId + 1

InitPanel ==
    /\ STAFF_ROLE_ID \in {None, StaffRoleId}
    /\ roles = [m \in Members |-> {}]
    /\ categories = 1
    /\ \E opener \in Members :
        /\ channels = [c \in ChannelIds |->
                IF c = GeneralId THEN PlainChannel
                ELSE IF c = ThreadId THEN PlainThread
                ELSE IF c = FirstTicketId THEN TicketOf(opener)
                ELSE NoChannel]
        /\ viewStore = (FirstTicketId :> opener)
        /\ sessions = [s \in SessionIds |->
                IF s = 1 THEN [st |-> "live", opener |-> opener, reason |-> 1,
                               priority |-> 1, disabled |-> FALSE, menu |-> "created"]
                ELSE NoSession]
    /\ selectors = {}
    /\ tasks = [t \in TaskIds |-> IdleTask]
    /\ last = Quiet
    /\ nclaims = 0
    /\ trail = NoTrail

\* at most MaxPanelTasks handlers are suspended after the step
Within == Cardinality({t \in TaskIds : tasks'[t].pc # "idle"}) <= MaxPanelTasks

\* The panel of one ticket, its handlers running at most MaxPanelTasks at a time.
NextPanel ==
    \/ \E m \in Members, c \in ChannelIds : panel_close(m, c) /\ Within
    \/ \E t \in TaskIds, ok \in BOOLEAN : channel_delete(t, ok)
    \/ \E m \in Members, c \in ChannelIds : transcript(m, c) /\ Within
    \/ \E t \in TaskIds : transcript_send(t)
    \/ \E m \in Members, c \in ChannelIds : add_user(m, c)
    \/ \E m \in Members, c \in ChannelIds : remove_user(m, c)
    \/ \E v \in selectors : selector_timeout(v)
    \/ \E v \in selectors, u \in PlatformUsers \cup {BotId} : select_user(v, u) /\ Within
    \/ \E t \in TaskIds, ok \in BOOLEAN : set_permissions(t, ok) /\ UNCHANGED trail
    \/ \E m \in Members : GrantRole(m)
    \/ \E m \in Members : RevokeRole(m)
    \/ on_ready

SpecPanel == InitPanel /\ [][NextPanel]_vars

SpecClaim == InitPanel /\ [][NextClaim \/ NextRoles]_vars

SpecCommand == InitPanel /\ [][NextCommand \/ NextRoles]_vars

\* ------------------------------------------- add-user then remove-user
\* The history of accepted overwrite edits: an add is remembered with the
\* overwrite it replaced; the remove that follows it for the same identity marks
\* it undone; any other accepted edit forgets it.
Trailed(t) ==
    LET c == tasks[t].chan
        target == tasks[t].target
    IN IF tasks[t].pc = "set_add"
       THEN [chan |-> c, target |-> target,
             before |-> OverwriteOf(channels[c].ow, target), undone |-> FALSE,
             added |-> trail.added \cup {<<c, target>>}]
       ELSE IF trail.chan = c /\ trail.target = target /\ ~trail.undone
       THEN [trail EXCEPT !.undone = TRUE, !.added = @ \ {<<c, target>>}]
       ELSE [NoTrail EXCEPT !.added = trail.added \ {<<c, target>>}]

NextSelectors ==
    \/ \E m \in Members, c \in ChannelIds : add_user(m, c)
    \/ \E m \in Members, c \in ChannelIds : remove_user(m, c)
    \/ \E v \in selectors : selector_timeout(v)
    \/ \E v \in selectors, u \in PlatformUsers \cup {BotId} : select_user(v, u) /\ Within
    \/ \E t \in TaskIds, ok \in BOOLEAN :
        /\ set_permissions(t, ok)
        /\ trail' = IF ok /\ Live(tasks[t].chan) THEN Trailed(t) ELSE trail
    \/ \E m \in Members : GrantRole(m)
    \/ \E m \in Members : RevokeRole(m)

SpecSelectors == InitPanel /\ [][NextSelectors]_vars

\* ------------------------------------------------------------- properties
\* holds the configured staff role, as the platform knows at this moment
IsStaff(a) == STAFF_ROLE_ID # None /\ STAFF_ROLE_ID \in roles[a]

\* opener of the ticket, or staff
Authorized(a, c) == a = channels[c].opener \/ IsStaff(a)

Started(t, pcs) == tasks[t].pc = "idle" /\ tasks'[t].pc \in pcs

Finished(t, pcs) == tasks[t].pc \in pcs /\ tasks'[t].pc = "idle"

\* C1: for every actor, opener id (a member's or the placeholder's) and staff
\* role configuration, can_manage is true iff the actor is the opener or a staff
\* role is configured and the actor holds it.
CanManageIff ==
    \A a \in Members, o \in Members \cup {PlaceholderOpenerId} :
        can_manage(a, o) <=> (a = o \/ (STAFF_ROLE_ID # None /\ STAFF_ROLE_ID \in roles[a]))

\* a staff member who is not the panel's opener was let through, and a member
\* who is neither would not be
CanManageDecided ==
    \E c \in ChannelIds, a, b \in Members :
        /\ last = Said("close", a, c, "closing")
        /\ a # PanelOpenerId(c) /\ IsStaff(a)
        /\ b # PanelOpenerId(c) /\ ~IsStaff(b) /\ ~can_manage(b, PanelOpenerId(c))

PanelPcs == {"panel_sleep", "history", "set_add", "set_remove"}

\* C4: a panel action or participant selection by an actor who is neither the
\* opener nor staff starts no handler and opens no selector, and its rejection
\* leaves the channels (existence, overwrites, topic), the handlers and the
\* selectors as they were.
OutsidersRejected ==
    [][/\ \A t \in TaskIds : Started(t, PanelPcs)
                => Authorized(tasks'[t].actor, tasks'[t].chan)
       /\ \A v \in selectors' \ selectors : Authorized(v.user, v.chan)
       /\ (last'.msg = "not_allowed" /\ last' # last)
            => UNCHANGED <<channels, tasks, selectors>>]_vars

\* a selection was rejected: the actor lost the staff role after opening the selector
OutsiderRejected ==
    /\ last.msg = "not_allowed"
    /\ last.op \in {"add_select", "remove_select"}
    /\ Live(last.chan)
    /\ ~Authorized(last.actor, last.chan)

\* C5 as stated: after an add-user and the remove-user that follows it for the
\* same identity, the identity's overwrite is what it was before the add.
AddThenRemoveRestores ==
    trail.undone =>
        OverwriteOf(channels[trail.chan].ow, trail.target) = trail.before

\* C5 as amended: after an add-user and the remove-user that follows it for the
\* same identity, both accepted by the platform, the identity has no overwrite
\* on the channel, which is its state before the add exactly when it had none.
AddThenRemoveClears ==
    trail.undone =>
        LET now == OverwriteOf(channels[trail.chan].ow, trail.target)
        IN now = <<>> /\ (now = trail.before <=> trail.before = <<>>)

\* a member without an overwrite was added and then removed
AddedThenRemoved ==
    /\ trail.undone
    /\ trail.target \in Members
    /\ trail.before = <<>>
    /\ last.msg = "removed"

\* C6: a claim goes ahead only for an actor who holds the configured staff role
\* when pressing; the topic changes and a claim is announced only as the outcome
\* of such a claim.
ClaimOnlyStaff ==
    [][/\ \A t \in TaskIds : Started(t, {"edit_topic"}) => IsStaff(tasks'[t].actor)
       /\ \A c \in ChannelIds : channels'[c].topic # channels[c].topic
            => \E t \in TaskIds : Finished(t, {"edit_topic"}) /\ tasks[t].chan = c
       /\ (last'.msg = "claimed" /\ last' # last)
            => \E t \in TaskIds : Finished(t, {"edit_topic"}) /\ tasks[t].actor = last'.actor
      ]_vars

\* the opener, no staff, pressed claim on the own ticket, which staff had claimed
OpenerNotClaiming ==
    \E c \in ChannelIds :
        /\ last = Said("claim", channels[c].opener, c, "only_staff")
        /\ channels[c].ticket
        /\ channels[c].topic # <<>>

\* C8: the opener binding a ticket's panel authorizes with is the ticket's
\* opener, so the opener passes can_manage on the own ticket's panel.
OpenerKeepsAccess ==
    \A c \in ChannelIds :
        (channels[c].ticket /\ PanelUsable(c))
            => can_manage(channels[c].opener, PanelOpenerId(c))

\* C9: no channel that is not a ticket channel is ever deleted.
OnlyTicketsDeleted ==
    \A c \in ChannelIds : channels[c].st = "deleted" => channels[c].ticket

\* C2: while the reason or the priority of a session is unset, no confirm of the
\* session is under way and no channel was created by it: every confirm so far
\* was rejected.
ConfirmNeedsBoth ==
    \A s \in SessionIds :
        (sessions[s].reason = None \/ sessions[s].priority = None)
            => /\ \A t \in TaskIds : tasks[t].sess # s
               /\ \A c \in ChannelIds : channels[c].by # s

\* a confirm was rejected with the reason set and the priority still unset
ConfirmRejected ==
    \E s \in SessionIds :
        /\ last = Said("on_confirm", sessions[s].opener, None, "select_both")
        /\ sessions[s].reason # None
        /\ sessions[s].priority = None
        /\ \A c \in ChannelIds : channels[c].by # s

ChannelsBy(s) == {c \in ChannelIds : channels[c].ticket /\ channels[c].by = s}

\* C3: a session creates at most one ticket channel, and exactly one once its
\* menu shows the created ticket.
OneChannelPerSession ==
    \A s \in SessionIds :
        /\ Cardinality(ChannelsBy(s)) <= 1
        /\ sessions[s].menu = "created" => Cardinality(ChannelsBy(s)) = 1

\* C10: when the platform refuses the channel creation of a confirm, the handler
\* ends with an error told to the user, not with an exception nobody catches,
\* and the session keeps its reason, its priority and its controls.
CreationRefusalReported ==
    [][\A t \in TaskIds :
        (Finished(t, {"create_text_channel"}))
            => /\ last'.msg # "unhandled_forbidden"
               /\ sessions' = sessions]_vars

\* ---------------------------------------------------------- the long topic
RECURSIVE AfterClaims(_, _)
\* the topic after k accepted claims of one member on a fresh ticket
AfterClaims(k, member) ==
    IF k = 0 THEN <<>> ELSE ClaimedTopic(AfterClaims(k - 1, member), member)

\* A ticket that one staff member has claimed up to MaxPriorClaims times.
InitTopic ==
    /\ STAFF_ROLE_ID = StaffRoleId
    /\ roles = [m \in Members |-> {}]
    /\ categories = 1
    /\ \E opener \in Members, k \in 0..MaxPriorClaims, p \in Members :
        /\ channels = [c \in ChannelIds |->
                IF c = GeneralId THEN PlainChannel
                ELSE IF c = ThreadId THEN PlainThread
                ELSE IF c = FirstTicketId
                     THEN [TicketOf(opener) EXCEPT !.topic = AfterClaims(k, p)]
                ELSE NoChannel]
        /\ viewStore = (FirstTicketId :> opener)
        /\ sessions = [s \in SessionIds |->
                IF s = 1 THEN [st |-> "live", opener |-> opener, reason |-> 1,
                               priority |-> 1, disabled |-> FALSE, menu |-> "created"]
                ELSE NoSession]
    /\ selectors = {}
    /\ tasks = [t \in TaskIds |-> IdleTask]
    /\ last = Quiet
    /\ nclaims = 0
    /\ trail = NoTrail

SpecTopic == InitTopic /\ [][NextClaim \/ NextRoles]_vars

\* the note names the member: it is kept at least up to the end of the name
Names(note, member) == note.by = member /\ note.kept >= NamePrefixLen

\* C7: after a claim whose topic edit the platform accepted, the topic holds a
\* note naming the claimer, whatever the topic was before.
AcceptedClaimNoted ==
    [][nclaims' > nclaims
        => \E i \in DOMAIN channels'[last'.chan].topic :
                Names(channels'[last'.chan].topic[i], last'.actor)]_vars

\* ------------------------------------------------- refused platform calls
\* the handlers suspended in a call that changes the guild
MutatingPcs ==
    {"create_category", "create_text_channel", "set_add", "set_remove",
     "panel_sleep", "cmd_sleep"}

\* C11: whenever a handler comes back from a category creation, a channel
\* creation, a permission edit or a channel deletion, a refusal of the call is
\* not left as an exception nobody catches: the last thing raised or told is
\* never an unhandled Forbidden.
RefusalsReported ==
    [][\A t \in TaskIds :
        Finished(t, MutatingPcs) => last'.msg # "unhandled_forbidden"]_vars

\* ------------------------------------------------------ transcript export
MaxMessages == 2
MaxStamp == 3
MaxContent == 2

\* the contents a message may have: up to MaxContent letters and line breaks
Contents ==
    UNION {[1..n -> {LetterA, Newline}] : n \in 0..MaxContent}

Messages ==
    [created_at : 1..MaxStamp, author : Members, content : Contents,
     attachments : {<<>>, <<1>>}]

RECURSIVE Histories(_)
\* what a channel may hold, up to n messages: no two share a time of creation
Histories(n) ==
    IF n = 0 THEN {{}}
    ELSE LET H == Histories(n - 1)
         IN H \cup UNION {{h \cup {a} :
                            a \in {x \in Messages :
                                    \A y \in h : x.created_at # y.created_at}} :
                          h \in H}

\* The ticket of one member holding any history of up to MaxMessages messages.
InitTranscript ==
    /\ STAFF_ROLE_ID = None
    /\ roles = [m \in Members |-> {}]
    /\ categories = 1
    /\ \E opener \in Members, h \in Histories(MaxMessages) :
        /\ channels = [c \in ChannelIds |->
                IF c = GeneralId THEN PlainChannel
                ELSE IF c = ThreadId THEN PlainThread
                ELSE IF c = FirstTicketId
                     THEN [TicketOf(opener) EXCEPT !.messages = h]
                ELSE NoChannel]
        /\ viewStore = (FirstTicketId :> opener)
        /\ sessions = [s \in SessionIds |->
                IF s = 1 THEN [st |-> "live", opener |-> opener, reason |-> 1,
                               priority |-> 1, disabled |-> FALSE, menu |-> "created"]
                ELSE NoSession]
    /\ selectors = {}
    /\ tasks = [t \in TaskIds |-> IdleTask]
    /\ last = Quiet
    /\ nclaims = 0
    /\ trail = NoTrail

NextTranscript ==
    \/ \E m \in Members, c \in ChannelIds : transcript(m, c) /\ Within
    \/ \E t \in TaskIds : transcript_send(t)

SpecTranscript == InitTranscript /\ [][NextTranscript]_vars

RECURSIVE SplitLines(_)
\* the records of a text: its pieces between one line break and the next
SplitLines(text) ==
    LET breaks == {i \in 1..Len(text) : text[i] = Char(Newline)}
    IN IF breaks = {} THEN <<text>>
       ELSE LET b == CHOOSE i \in breaks : \A j \in breaks : i <= j
            IN <<SubSeq(text, 1, b - 1)>> \o SplitLines(SubSeq(text, b + 1, Len(text)))

\* s lists every message of msgs once, by strictly increasing time of creation
Chronological(s, msgs) ==
    /\ {s[i] : i \in DOMAIN s} = msgs
    /\ \A i, j \in DOMAIN s : i < j => s[i].created_at < s[j].created_at

\* C12: the file a transcript sends holds, for a history of n >= 1 messages,
\* exactly n records, the i-th being the line of the i-th oldest message; for an
\* empty history it is the text "No messages.", not an empty text.
TranscriptInOrder ==
    [][\A t \in TaskIds :
        (Finished(t, {"history"}) /\ Live(tasks[t].chan)) =>
            LET msgs == channels[tasks[t].chan].messages
                n == Cardinality(msgs)
                recs == SplitLines(last'.file)
            IN IF msgs = {}
               THEN last'.file = NoMessagesText /\ last'.file # <<>>
               ELSE /\ Len(recs) = n
                    /\ \E s \in [1..n -> msgs] :
                        /\ Chronological(s, msgs)
                        /\ \A i \in 1..n : recs[i] = Line(s[i])]_vars

\* a transcript of two messages was sent, the older one holding a line break
TranscriptOfTwo ==
    /\ last.op = "transcript" /\ last.msg = "file"
    /\ LET msgs == channels[last.chan].messages
       IN /\ Cardinality(msgs) = 2
          /\ \E i \in DOMAIN Oldest(msgs).content : Oldest(msgs).content[i] = Newline
          /\ Len(SplitLines(last.file)) = 2

\* ------------------------------------------------- the end of a session
\* the cancel of the session was handled, or its view timed out
Terminal(s) ==
    sessions[s].menu \in {"cancelling", "cancelled"} \/ sessions[s].st = "timed_out"

\* C13: once the cancel of a session was handled or its view timed out, no
\* event on its controls acts: no confirm of the session starts creating a
\* ticket and no selection changes its reason or its priority.
CancelledIsTerminal ==
    [][\A s \in SessionIds :
        Terminal(s) =>
            /\ \A t \in TaskIds :
                Started(t, {"create_category", "create_text_channel"})
                    => tasks'[t].sess # s
            /\ sessions'[s].reason = sessions[s].reason
            /\ sessions'[s].priority = sessions[s].priority]_vars

\* ---------------------------------------------------- concurrent closes
ClosePcs == {"panel_sleep", "cmd_sleep"}

\* C14: a close that comes out of its delay to find its ticket channel deleted
\* by another close ends with its failure told to its actor, not with an exception
\* nobody catches.
SecondCloseReported ==
    [][\A t \in TaskIds :
        (Finished(t, ClosePcs) /\ channels[tasks[t].chan].ticket /\ ~Live(tasks[t].chan))
            => last'.msg # "unhandled_not_found"]_vars

\* ------------------------------------------- requests racing with a close
\* The panel of one ticket with its handlers suspended side by side: a close in
\* its delay next to a transcript, a selection or a claim.
NextRace ==
    \/ \E m \in Members, c \in ChannelIds : panel_close(m, c)
    \/ \E t \in TaskIds, ok \in BOOLEAN : channel_delete(t, ok)
    \/ \E m \in Members, c \in ChannelIds : transcript(m, c)
    \/ \E t \in TaskIds : transcript_send(t)
    \/ \E m \in Members, c \in ChannelIds : add_user(m, c)
    \/ \E m \in Members, c \in ChannelIds : remove_user(m, c)
    \/ \E v \in selectors, u \in PlatformUsers \cup {BotId} : select_user(v, u)
    \/ \E t \in TaskIds, ok \in BOOLEAN : set_permissions(t, ok) /\ UNCHANGED trail
    \/ \E m \in Members, c \in ChannelIds : claim(m, c)
    \/ \E t \in TaskIds, ok \in BOOLEAN : edit_topic(t, ok)
    \/ \E m \in Members : GrantRole(m)

SpecRace == InitPanel /\ [][NextRace]_vars

RequestPcs == {"history", "set_add", "set_remove", "edit_topic"}

\* C15: a transcript, a selection or a claim whose platform call lands after a
\* close has deleted the channel ends without an exception nobody catches.
RequestsSurviveClose ==
    [][\A t \in TaskIds :
        (Finished(t, RequestPcs) /\ ~Live(tasks[t].chan))
            => last'.msg # "unhandled_not_found"]_vars

\* ------------------------------------------------- the ticket category
\* Every member has a menu open with reason and priority chosen, and the guild
\* has no category of the configured name yet.
InitCategory ==
    /\ STAFF_ROLE_ID \in {None, StaffRoleId}
    /\ roles = [m \in Members |-> {}]
    /\ categories = 0
    /\ channels = [c \in ChannelIds |->
                    IF c = GeneralId THEN PlainChannel
                    ELSE IF c = ThreadId THEN PlainThread
                    ELSE NoChannel]
    /\ viewStore = <<>>
    /\ sessions \in [SessionIds ->
            [st : {"live"}, opener : Members, reason : PRESET_REASONS,
             priority : PRESET_PRIORITIES, disabled : {FALSE}, menu : {"controls"}]]
    /\ \A s \in SessionIds : sessions[s].opener = s
    /\ selectors = {}
    /\ tasks = [t \in TaskIds |-> IdleTask]
    /\ last = Quiet
    /\ nclaims = 0
    /\ trail = NoTrail

NextCategory ==
    \/ \E s \in SessionIds : on_confirm(s)
    \/ \E t \in TaskIds, ok \in BOOLEAN : create_category(t, ok)
    \/ \E t \in TaskIds, ok \in BOOLEAN : create_text_channel(t, ok)
    \/ \E t \in TaskIds : send_panel(t)
    \/ \E t \in TaskIds : edit_message(t)

SpecCategory == InitCategory /\ [][NextCategory]_vars

\* C16: the guild never holds more than one category of the configured name,
\* and every ticket channel lies under that one category.
OneCategory ==
    /\ categories <= 1
    /\ \A c \in ChannelIds : channels[c].ticket => (categories = 1 /\ channels[c].cat = 1)

\* --------------------------------------------- authorization and time
\* C17: an overwrite edit is called, and a channel is deleted, only for an actor
\* who is the opener or holds the staff role at that moment: a role revoked
\* after the selector was opened, or during the delay of a close, stops the
\* edit and the deletion.
AuthorizedWhenExecuted ==
    [][\A t \in TaskIds :
        /\ Started(t, {"set_add", "set_remove"})
            => Authorized(tasks'[t].actor, tasks'[t].chan)
        /\ (Finished(t, ClosePcs) /\ Live(tasks[t].chan)
                /\ channels'[tasks[t].chan].st = "deleted")
            => Authorized(tasks[t].actor, tasks[t].chan)]_vars

\* ------------------------------------------------------ the course of a close
\* a press of the panel's Close was answered in this step
CloseAnswered ==
    last' # last /\ last'.op = "close" /\ last'.msg \in {"closing", "not_allowed"}

\* C18: a press of Close by the ticket's opener or by staff is acknowledged and
\* enters the delay; a channel is deleted only by a close coming out of its
\* delay; and a close that ends while the process runs leaves the channel
\* deleted or its failure told.
AuthorizedCloseRuns ==
    [][/\ (CloseAnswered /\ Authorized(last'.actor, last'.chan))
            => /\ last'.msg = "closing"
               /\ \E t \in TaskIds : Started(t, {"panel_sleep"})
       /\ \A c \in ChannelIds :
            (Live(c) /\ channels'[c].st = "deleted")
                => \E t \in TaskIds : Finished(t, ClosePcs) /\ tasks[t].chan = c
       /\ \A t \in TaskIds :
            (Finished(t, ClosePcs) /\ last' # Quiet)
                => \/ channels'[tasks[t].chan].st = "deleted"
                   \/ last' = Said("close", tasks[t].actor, tasks[t].chan,
                                   "lack_permission")]_vars

\* ------------------------------------------------- who can see a ticket
\* the identities whose overwrite on the channel grants view
Viewers(c) == {i \in DOMAIN channels[c].ow : "view_channel" \in channels[c].ow[i].allow}

\* the identities build_ticket_overwrites lets in
Standing(c) ==
    {channels[c].opener, BotId}
    \cup (IF get_role(STAFF_ROLE_ID) # None THEN {get_role(STAFF_ROLE_ID)} ELSE {})

\* C19: on every live ticket channel the default role is denied view, and an
\* overwrite granting view is held only by the opener, the bot, the configured
\* staff role and the identities added by an accepted add-user selection and
\* not removed since; selections are served only for actors passing can_manage.
OnlyGrantedView ==
    /\ [](\A c \in ChannelIds :
            (channels[c].ticket /\ Live(c)) =>
                /\ DefaultRoleId \in DOMAIN channels[c].ow
                /\ "view_channel" \in channels[c].ow[DefaultRoleId].deny
                /\ Viewers(c) \subseteq
                        Standing(c)
                        \cup {i \in Members \cup {BotId} : <<c, i>> \in trail.added})
    /\ [][\A t \in TaskIds :
            Started(t, {"set_add"})
                => \E v \in selectors :
                        /\ v.user = tasks'[t].actor /\ v.chan = tasks'[t].chan
                        /\ can_manage(v.user, v.opener_id)]_vars

\* a member who is not the opener was added by staff and sees the ticket, while
\* the opener was removed from it
ParticipantAdded ==
    \E c \in ChannelIds, i \in Members :
        /\ channels[c].ticket /\ Live(c)
        /\ i # channels[c].opener
        /\ <<c, i>> \in trail.added
        /\ i \in Viewers(c)
        /\ channels[c].opener \notin Viewers(c)
        /\ last.msg = "added"

\* C20: on every live ticket channel the opener holds the overwrite granted at
\* creation (view, send, read history, attach).
OpenerOverwritePresent ==
    \A c \in ChannelIds :
        (channels[c].ticket /\ Live(c))
            => OverwriteOf(channels[c].ow, channels[c].opener) = <<OpenerOverwrite>>

====
